---------------------------- MODULE Spec2Model ----------------------------
(***************************************************************************)
(* A model of generate_wg_report.py: the batch pipeline                    *)
(*   parse_arguments -> load_peer_map -> process_logs -> write_csv_report  *)
(* that rebuilds WireGuard connection sessions from connection logs.       *)
(*                                                                         *)
(* Time.  A zoned timestamp is a record [date, tod, off]: the calendar day *)
(* number and the second of that day, both in the timestamp's own UTC      *)
(* offset, and the offset in seconds.  Python orders and subtracts aware   *)
(* datetimes by their UTC instant, Instant(t); .date() is the local day.   *)
(*                                                                         *)
(* Text.  Names, keys and endpoints are strings.  An event token is a      *)
(* sequence of characters, so that event.split()[0] and                    *)
(* startswith("DISCONNECT") are computed rather than looked up.            *)
(***************************************************************************)
EXTENDS Integers, Sequences, FiniteSets, TLC

VARIABLES
    argv,            \* the command line: [user, start_date, end_date, days]
    today,           \* datetime.date.today() of the run
    map_file,        \* the peer map file: [exists, json_object, items]
    log_dir,         \* the log files matching the prefix: a set of files
    output_ok,       \* whether the output path can be opened for writing
    pc,              \* where main() stands
    args,            \* the parsed namespace (start_date_dt, end_date_dt, user)
    peer_map,        \* load_peer_map's result: key -> name
    file_queue,      \* sorted(log_files, reverse=True) still to be read
    processed_files, \* files read to their end
    log_entries,     \* the entries kept so far; sorted in place at line 174
    last_log_time,   \* line 179
    idx,             \* position of the session loop in log_entries
    peer_states,     \* key -> state (the defaultdict's entries)
    peer_order,      \* the defaultdict's insertion order
    fin,             \* position of the ongoing-session loop in peer_order
    sessions,        \* the session rows
    csv,             \* the report file: None, or Some(rows), header first
    stdout,          \* notices printed
    stderr,          \* warnings and errors printed
    exit_status,     \* None while running, then Some(0) or Some(1)
    duration,        \* format_duration taken alone: its argument,
    rendered        \* and the text it returned

vars == <<argv, today, map_file, log_dir, output_ok, pc, args, peer_map,
          file_queue, processed_files, log_entries, last_log_time, idx,
          peer_states, peer_order, fin, sessions, csv, stdout, stderr,
          exit_status, duration, rendered>>

envVars == <<argv, today, map_file, log_dir, output_ok>>

fmtVars == <<duration, rendered>>

\* An optional value: None, or Some(x).
None == <<>>
Some(x) == <<x>>
The(o) == o[1]

-----------------------------------------------------------------------------
(* Time *)

SecondsPerDay == 24 * 3600

\* Faulty variant: the wall-clock reading, the offset dropped.
Instant_IgnoringOffset(t) == t.date * SecondsPerDay + t.tod

\* The UTC instant of an aware datetime: what <, sort and - work on.
Instant(t) == t.date * SecondsPerDay + t.tod - t.off

\* Faulty variant: the calendar day in UTC.
DateOf_Utc(t) == (t.date * SecondsPerDay + t.tod - t.off) \div SecondsPerDay

\* datetime.date(): the calendar day in the timestamp's own offset.
DateOf(t) == t.date

\* datetime.fromisoformat on the text the pattern's group 1 matched:
\* a ValueError when a field is out of range.
TimestampValid(s) ==
    /\ s.hh < 24
    /\ s.mm < 60
    /\ s.ss < 60
    /\ s.off > -SecondsPerDay
    /\ s.off < SecondsPerDay

fromisoformat(s) ==
    [date |-> s.date, tod |-> s.hh * 3600 + s.mm * 60 + s.ss, off |-> s.off]

\* datetime.isoformat(): the fields as rendered, offset in minutes.
isoformat(t) ==
    <<t.date, t.tod \div 3600, (t.tod % 3600) \div 60, t.tod % 60, t.off \div 60>>

DigitChars == <<"0", "1", "2", "3", "4", "5", "6", "7", "8", "9">>

\* str(n) for n >= 0.
RECURSIVE Decimal(_)
Decimal(n) ==
    IF n < 10 THEN <<DigitChars[n + 1]>>
    ELSE Decimal(n \div 10) \o <<DigitChars[(n % 10) + 1]>>

\* The format spec 02: the sign, then zeros up to a width of two.
Format02(n) ==
    LET text == IF n < 0 THEN <<"-">> \o Decimal(-n) ELSE Decimal(n)
    IN  IF Len(text) >= 2 THEN text ELSE <<"0">> \o text

\* Faulty variant: the hours wrap at the day.
format_duration_WrapDays(td) ==
    IF td = None THEN <<"N", "/", "A">>
    ELSE LET total_seconds == The(td)
             hours     == (total_seconds \div 3600) % 24
             remainder == total_seconds % 3600
             minutes   == remainder \div 60
             seconds   == remainder % 60
         IN  Format02(hours) \o <<":">> \o Format02(minutes)
                 \o <<":">> \o Format02(seconds)

\* format_duration(td), td None or Some(seconds): None is not a timedelta.
format_duration(td) ==
    IF td = None THEN <<"N", "/", "A">>
    ELSE LET total_seconds == The(td)
             hours     == total_seconds \div 3600
             remainder == total_seconds % 3600
             minutes   == remainder \div 60
             seconds   == remainder % 60
         IN  Format02(hours) \o <<":">> \o Format02(minutes)
                 \o <<":">> \o Format02(seconds)

-----------------------------------------------------------------------------
(* Event tokens *)

CONNECT    == <<"C","O","N","N","E","C","T">>
DISCONNECT == <<"D","I","S","C","O","N","N","E","C","T">>
RECONNECT_UPDATE == <<"R","E","C","O","N","N","E","C","T","/","U","P","D","A","T","E">>
DISCONNECTED == DISCONNECT \o <<"E","D">>
HANDSHAKE  == <<"H","A","N","D","S","H","A","K","E">>
TIMEOUT    == <<"(","T","i","m","e","o","u","t",")">>

\* str.startswith
startswith(s, prefix) ==
    /\ Len(s) >= Len(prefix)
    /\ SubSeq(s, 1, Len(prefix)) = prefix

\* event.split()[0] on group 2, a token with an optional "(...)" word.
PrimaryEvent(event) == event[1]

is_connect_event(event) == event \in {CONNECT, RECONNECT_UPDATE}

is_disconnect_event(event) == startswith(event, DISCONNECT)

-----------------------------------------------------------------------------
(* parse_arguments *)

\* Lines 70-79: the resolved dates.  A date is a day number.
end_date_dt(av, td) ==
    IF av.end_date # None THEN The(av.end_date) ELSE td

start_date_dt(av, td) ==
    IF av.start_date # None THEN The(av.start_date)
    ELSE end_date_dt(av, td) - (av.days - 1)

\* Line 82.
DatesInverted(av, td) == start_date_dt(av, td) > end_date_dt(av, td)

-----------------------------------------------------------------------------
(* load_peer_map *)

\* Lines 97-99 on the items of the JSON object, in order.  Testing
\* 'publicKey' in details raises TypeError on a number, true, false or null:
\* the loop stops there and the entries made so far stay.
RECURSIVE MapItems(_, _)
MapItems(items, pm) ==
    IF items = <<>> THEN [map |-> pm, raised |-> FALSE]
    ELSE LET it == Head(items)
         IN  IF it.kind = "scalar" THEN [map |-> pm, raised |-> TRUE]
             ELSE IF it.kind = "peer"
                  THEN MapItems(Tail(items),
                          [k \in DOMAIN pm \cup {it.publicKey} |->
                              IF k = it.publicKey THEN it.name ELSE pm[k]])
                  ELSE MapItems(Tail(items), pm)

EmptyMap == [k \in {} |-> "Unknown"]

\* load_peer_map(map_file_path): the map and whether a warning is printed.
load_peer_map(mf) ==
    IF ~mf.exists THEN [map |-> EmptyMap, warned |-> TRUE]
    ELSE IF ~mf.json_object THEN [map |-> EmptyMap, warned |-> TRUE]
    ELSE LET r == MapItems(mf.items, EmptyMap)
         IN  [map |-> r.map, warned |-> r.raised]

\* Faulty variant: the map is consulted only for a line that says "Unknown".
ResolveName_HintFirst(pm, key, name_from_log) ==
    IF name_from_log = "Unknown" /\ key \in DOMAIN pm THEN pm[key]
    ELSE name_from_log

\* peer_map.get(key, name_from_log), line 150.
ResolveName(pm, key, name_from_log) ==
    IF key \in DOMAIN pm THEN pm[key] ELSE name_from_log

-----------------------------------------------------------------------------
(* process_logs: reading *)

\* Line 146.
InDateRange(a, t) ==
    /\ a.start_date_dt <= DateOf(t)
    /\ DateOf(t) <= a.end_date_dt

\* Line 151: the entry is kept.
UserMatches(a, peer_name) == a.user = "all" \/ peer_name = a.user

\* Lines 129-160 on one line of text: the entries appended (none or one) and
\* the warnings printed.
ProcessLine(a, pm, line) ==
    IF ~line.match THEN [entries |-> <<>>, warnings |-> <<>>]
    ELSE IF ~TimestampValid(line.ts)
    THEN [entries |-> <<>>, warnings |-> <<"timestamp parse error">>]
    ELSE LET timestamp_dt == fromisoformat(line.ts)
             peer_name    == ResolveName(pm, line.key, line.name)
         IN  IF ~InDateRange(a, timestamp_dt)
             THEN [entries |-> <<>>, warnings |-> <<>>]
             ELSE IF ~UserMatches(a, peer_name)
             THEN [entries |-> <<>>, warnings |-> <<>>]
             ELSE [entries |-> << [timestamp |-> timestamp_dt,
                                   event     |-> PrimaryEvent(line.event),
                                   peer_key  |-> line.key,
                                   peer_name |-> peer_name,
                                   endpoint  |-> line.ip] >>,
                   warnings |-> <<>>]

\* Lines 128-160: the loop over the lines a file yields.
RECURSIVE ProcessLines(_, _, _)
ProcessLines(a, pm, lines) ==
    IF lines = <<>> THEN [entries |-> <<>>, warnings |-> <<>>]
    ELSE LET h == ProcessLine(a, pm, Head(lines))
             t == ProcessLines(a, pm, Tail(lines))
         IN  [entries |-> h.entries \o t.entries,
              warnings |-> h.warnings \o t.warnings]

\* sorted(log_files, reverse=True), line 121: by name, descending.
RECURSIVE SortedReverse(_)
SortedReverse(files) ==
    IF files = {} THEN <<>>
    ELSE LET f == CHOOSE x \in files : \A y \in files : y.name <= x.name
         IN  <<f>> \o SortedReverse(files \ {f})

\* list.sort(key=timestamp), line 174: stable, ascending by instant.
RECURSIVE InsertSorted(_, _)
InsertSorted(sorted, e) ==
    IF sorted = <<>> THEN <<e>>
    ELSE IF Instant(e.timestamp) < Instant(sorted[Len(sorted)].timestamp)
         THEN InsertSorted(SubSeq(sorted, 1, Len(sorted) - 1), e)
                  \o <<sorted[Len(sorted)]>>
         ELSE sorted \o <<e>>

\* Faulty variant: the entries stay in the order they were read.
SortByTimestamp_AsRead(entries) == entries

RECURSIVE SortByTimestamp(_)
SortByTimestamp(entries) ==
    IF entries = <<>> THEN <<>>
    ELSE InsertSorted(SortByTimestamp(SubSeq(entries, 1, Len(entries) - 1)),
                      entries[Len(entries)])

-----------------------------------------------------------------------------
(* process_logs: the session loop *)

\* Line 177: the defaultdict's factory.
DefaultState ==
    [status |-> "disconnected", session_start_time |-> None,
     session_start_ip |-> None, current_name |-> "Unknown"]

\* peer_states[key], line 183: an unseen key gets the default state.
StateOf(ps, key) == IF key \in DOMAIN ps THEN ps[key] ELSE DefaultState

\* Faulty variant: the name is only taken when a session starts.
UpdateName_Never(state, entry) == state

\* Faulty variant: every entry's name is taken, "Unknown" included.
UpdateName_Overwrite(state, entry) ==
    [state EXCEPT !.current_name = entry.peer_name]

\* Lines 187-188.
UpdateName(state, entry) ==
    IF entry.peer_name # "Unknown"
    THEN [state EXCEPT !.current_name = entry.peer_name]
    ELSE state

\* Lines 196-201.
StartSession(state, entry) ==
    LET s == [state EXCEPT !.status = "connected",
                           !.session_start_time = Some(entry.timestamp),
                           !.session_start_ip = Some(entry.endpoint)]
    IN  IF s.current_name = "Unknown" /\ entry.peer_name # "Unknown"
        THEN [s EXCEPT !.current_name = entry.peer_name]
        ELSE s

\* end_time - start_time if start_time and end_time else None, lines 208, 230.
Duration(start_time, end_time) ==
    IF start_time # None /\ end_time # None
    THEN Some(Instant(The(end_time)) - Instant(The(start_time)))
    ELSE None

IsoOrNA(t) == IF t # None THEN isoformat(The(t)) ELSE <<"N/A">>

\* Lines 209-216: the row of a completed session.
CompletedRow(state, timestamp) ==
    LET start_time == state.session_start_time
        end_time   == Some(timestamp)
    IN  [PeerName     |-> state.current_name,
         SessionStart |-> IsoOrNA(start_time),
         SessionEnd   |-> [ongoing |-> FALSE, time |-> IsoOrNA(end_time)],
         Duration     |-> [text |-> format_duration(Duration(start_time, end_time)),
                           up_to_last_log |-> FALSE],
         EndpointIP   |-> IF state.session_start_ip # None
                          THEN The(state.session_start_ip) ELSE "N/A"]

\* Faulty variant: the reset forgets the start time.
ResetState_KeepStartTime(state) ==
    [state EXCEPT !.status = "disconnected",
                  !.session_start_ip = None]

\* Faulty variant: nothing is reset, the peer stays Connected.
ResetState_StayConnected(state) == state

\* Lines 218-220.
ResetState(state) ==
    [state EXCEPT !.status = "disconnected",
                  !.session_start_time = None,
                  !.session_start_ip = None]

\* Lines 231-238: the row of a session still open at the end.
OngoingRow(state, last) ==
    LET start_time == state.session_start_time
        end_time   == last
    IN  [PeerName     |-> state.current_name,
         SessionStart |-> IsoOrNA(start_time),
         SessionEnd   |-> [ongoing |-> TRUE, time |-> IsoOrNA(end_time)],
         Duration     |-> [text |-> format_duration(Duration(start_time, end_time)),
                           up_to_last_log |-> TRUE],
         EndpointIP   |-> IF state.session_start_ip # None
                          THEN The(state.session_start_ip) ELSE "N/A"]

\* Faulty variant: a connect taken while Connected starts the session again.
SessionEntry_RestartOnConnect(ps, po, ss, entry) ==
    LET key    == entry.peer_key
        named  == UpdateName(StateOf(ps, key), entry)
        closes == /\ ~is_connect_event(entry.event)
                  /\ is_disconnect_event(entry.event)
                  /\ named.status = "connected"
        state  == IF is_connect_event(entry.event)
                  THEN StartSession(named, entry)
                  ELSE IF closes THEN ResetState(named) ELSE named
    IN  [peer_states |-> [k \in DOMAIN ps \cup {key} |->
                             IF k = key THEN state ELSE ps[k]],
         peer_order  |-> IF key \in DOMAIN ps THEN po ELSE Append(po, key),
         sessions    |-> IF closes
                         THEN Append(ss, CompletedRow(named, entry.timestamp))
                         ELSE ss]

\* Faulty variant: a disconnect closes a session whatever the peer's status.
SessionEntry_CloseWithoutStatus(ps, po, ss, entry) ==
    LET key    == entry.peer_key
        named  == UpdateName(StateOf(ps, key), entry)
        closes == /\ ~is_connect_event(entry.event)
                  /\ is_disconnect_event(entry.event)
        state  == IF is_connect_event(entry.event)
                  THEN IF named.status = "disconnected"
                       THEN StartSession(named, entry)
                       ELSE named
                  ELSE IF closes THEN ResetState(named) ELSE named
    IN  [peer_states |-> [k \in DOMAIN ps \cup {key} |->
                             IF k = key THEN state ELSE ps[k]],
         peer_order  |-> IF key \in DOMAIN ps THEN po ELSE Append(po, key),
         sessions    |-> IF closes
                         THEN Append(ss, CompletedRow(named, entry.timestamp))
                         ELSE ss]

\* Faulty variant: a connect taken while Connected moves the session's
\* endpoint to its own.
SessionEntry_ConnectMovesEndpoint(ps, po, ss, entry) ==
    LET key    == entry.peer_key
        named  == UpdateName(StateOf(ps, key), entry)
        closes == /\ ~is_connect_event(entry.event)
                  /\ is_disconnect_event(entry.event)
                  /\ named.status = "connected"
        state  == IF is_connect_event(entry.event)
                  THEN IF named.status = "disconnected"
                       THEN StartSession(named, entry)
                       ELSE [named EXCEPT
                                !.session_start_ip = Some(entry.endpoint)]
                  ELSE IF closes THEN ResetState(named) ELSE named
    IN  [peer_states |-> [k \in DOMAIN ps \cup {key} |->
                             IF k = key THEN state ELSE ps[k]],
         peer_order  |-> IF key \in DOMAIN ps THEN po ELSE Append(po, key),
         sessions    |-> IF closes
                         THEN Append(ss, CompletedRow(named, entry.timestamp))
                         ELSE ss]

\* Faulty variant: an entry that is neither a connect nor a disconnect is
\* skipped before anything is done with it.
SessionEntry_SkipOther(ps, po, ss, entry) ==
    LET key    == entry.peer_key
        named  == UpdateName(StateOf(ps, key), entry)
        closes == /\ ~is_connect_event(entry.event)
                  /\ is_disconnect_event(entry.event)
                  /\ named.status = "connected"
        state  == IF is_connect_event(entry.event)
                  THEN IF named.status = "disconnected"
                       THEN StartSession(named, entry)
                       ELSE named
                  ELSE IF closes THEN ResetState(named) ELSE named
    IN  IF ~is_connect_event(entry.event) /\ ~is_disconnect_event(entry.event)
        THEN [peer_states |-> ps, peer_order |-> po, sessions |-> ss]
        ELSE [peer_states |-> [k \in DOMAIN ps \cup {key} |->
                                  IF k = key THEN state ELSE ps[k]],
              peer_order  |-> IF key \in DOMAIN ps THEN po ELSE Append(po, key),
              sessions    |-> IF closes
                              THEN Append(ss, CompletedRow(named, entry.timestamp))
                              ELSE ss]

\* Lines 182-221: one pass of the loop body on entry, from the peer states
\* ps, their insertion order po and the rows ss.
SessionEntry(ps, po, ss, entry) ==
    LET key    == entry.peer_key
        named  == UpdateName(StateOf(ps, key), entry)
        closes == /\ ~is_connect_event(entry.event)
                  /\ is_disconnect_event(entry.event)
                  /\ named.status = "connected"
        state  == IF is_connect_event(entry.event)
                  THEN IF named.status = "disconnected"
                       THEN StartSession(named, entry)
                       ELSE named
                  ELSE IF closes THEN ResetState(named) ELSE named
    IN  [peer_states |-> [k \in DOMAIN ps \cup {key} |->
                             IF k = key THEN state ELSE ps[k]],
         peer_order  |-> IF key \in DOMAIN ps THEN po ELSE Append(po, key),
         sessions    |-> IF closes
                         THEN Append(ss, CompletedRow(named, entry.timestamp))
                         ELSE ss]

\* Lines 226-238: one pass of the loop over peer_states.items().
OngoingEntry(ss, state, last) ==
    IF state.status = "connected" THEN Append(ss, OngoingRow(state, last)) ELSE ss

\* Lines 181-221: the whole loop, on entries in their order.
RECURSIVE SessionLoop(_)
SessionLoop(entries) ==
    IF entries = <<>>
    THEN [peer_states |-> [k \in {} |-> DefaultState], peer_order |-> <<>>,
          sessions |-> <<>>]
    ELSE LET r == SessionLoop(SubSeq(entries, 1, Len(entries) - 1))
         IN  SessionEntry(r.peer_states, r.peer_order, r.sessions,
                          entries[Len(entries)])

\* Lines 225-238: the whole loop over the first n peers.
RECURSIVE OngoingLoop(_, _, _, _, _)
OngoingLoop(ss, ps, po, last, n) ==
    IF n = 0 THEN ss
    ELSE OngoingEntry(OngoingLoop(ss, ps, po, last, n - 1), ps[po[n]], last)

\* Lines 173-241: the sessions process_logs returns for a non-empty list of
\* entries in the order they were read.
SessionsOf(entries) ==
    LET sorted == SortByTimestamp(entries)
        r      == SessionLoop(sorted)
    IN  OngoingLoop(r.sessions, r.peer_states, r.peer_order,
                    Some(sorted[Len(sorted)].timestamp), Len(r.peer_order))

\* Line 249, the header row.
fieldnames ==
    <<"PeerName", "SessionStart", "SessionEnd", "Duration (HH:MM:SS)", "EndpointIP">>

-----------------------------------------------------------------------------
(* The runs explored: command lines, map files and log directories *)

\* The longest log explored, in lines.
MaxLines == 3

\* The length of the longer single-peer logs.
LongLines == 4

\* The default of --days, line 63.
DefaultDays == 3

Seqs(S, n) == UNION {[1..k -> S] : k \in 0..n}

\* A line the pattern matches.
Line(ts, event, name, key, ip) ==
    [match |-> TRUE, ts |-> ts, event |-> event, name |-> name, key |-> key,
     ip |-> ip]

\* A line the pattern does not match.
Garbage == [match |-> FALSE]

Clock(date, hh, mm, ss, off) ==
    [date |-> date, hh |-> hh, mm |-> mm, ss |-> ss, off |-> off]

\* Endpoints, one per position in a log: a row's endpoint tells its line.
Endpoints == <<"10.0.0.1", "10.0.0.2", "10.0.0.3", "10.0.0.4", "10.0.0.5",
               "10.0.0.6", "10.0.0.7", "10.0.0.8">>

\* Clock patterns: the second, on day 1 in UTC, of the line at position i.
Ascending(i)  == i
Descending(i) == 2 * MaxLines - i
Paired(i)     == (i + 1) \div 2

TickAt(pattern, i) ==
    CASE pattern = "ascending"  -> Ascending(i)
      [] pattern = "descending" -> Descending(i)
      [] pattern = "paired"     -> Paired(i)

\* What a line says, before it is given a time and an endpoint.
Shape(event, name, key) ==
    [kind |-> "line", event |-> event, name |-> name, key |-> key]

\* A line the pattern does not match, and a line whose hour is 24.
GarbageShape == [kind |-> "garbage"]
BadHourShape == [kind |-> "bad_hour", event |-> <<CONNECT>>, name |-> "Alice",
                 key |-> "K1"]

\* The lines of a log from their shapes, stamped by a clock pattern.
Stamp(shapes, pattern) ==
    [i \in 1..Len(shapes) |->
        IF shapes[i].kind = "garbage" THEN Garbage
        ELSE Line(Clock(1, IF shapes[i].kind = "bad_hour" THEN 24 ELSE 0, 0,
                        TickAt(pattern, i), 0),
                  shapes[i].event, shapes[i].name, shapes[i].key, Endpoints[i])]

LogFile(name, lines, error) == [name |-> name, lines |-> lines, error |-> error]

NoMapFile == [exists |-> FALSE, json_object |-> FALSE, items |-> <<>>]

MapFileOf(items) == [exists |-> TRUE, json_object |-> TRUE, items |-> items]

Peer(name, key) == [kind |-> "peer", name |-> name, publicKey |-> key]

BobMap == MapFileOf(<<Peer("Bob", "K1")>>)

Argv(user, start_date, end_date, days) ==
    [user |-> user, start_date |-> start_date, end_date |-> end_date,
     days |-> days]

\* No dates given: the last DefaultDays days up to today, day 2.
DefaultArgv == Argv("all", None, None, DefaultDays)

Run(av, mf, dir, ok) ==
    [argv |-> av, today |-> 2, map_file |-> mf, log_dir |-> dir,
     output_ok |-> ok]

\* Two peers connecting and disconnecting, in and out of order, with ties.
SessionShapes ==
    {Shape(e, "Unknown", k) : e \in {<<CONNECT>>, <<DISCONNECT, TIMEOUT>>},
                              k \in {"K1", "K2"}}

SessionRuns ==
    {Run(DefaultArgv, NoMapFile, {LogFile(1, Stamp(sh, p), FALSE)}, TRUE) :
        sh \in Seqs(SessionShapes, MaxLines),
        p \in {"ascending", "descending", "paired"}}

\* One peer connecting and disconnecting over a longer log.
LongRuns ==
    {Run(DefaultArgv, NoMapFile, {LogFile(1, Stamp(sh, "ascending"), FALSE)},
         TRUE) :
        sh \in [1..LongLines -> {Shape(<<CONNECT>>, "Unknown", "K1"),
                         Shape(<<DISCONNECT>>, "Unknown", "K1")}]}

\* Two peers whose sessions interleave over five lines: the keys of the lines
\* are fixed, each line is a connect or a disconnect.
KeyPatterns ==
    {<<"K1", "K1", "K1", "K2", "K2">>, <<"K1", "K2", "K2", "K1", "K1">>}

InterleavedLogs(ks) ==
    {Stamp([i \in DOMAIN ks |-> Shape(ev[i], "Unknown", ks[i])], p) :
        ev \in [DOMAIN ks -> {<<CONNECT>>, <<DISCONNECT>>}],
        p \in {"ascending", "paired"}}

InterleavedRuns ==
    {Run(DefaultArgv, NoMapFile, {LogFile(1, ls, FALSE)}, TRUE) :
        ls \in UNION {InterleavedLogs(ks) : ks \in KeyPatterns}}

\* One peer, every kind of line.
EventShapes ==
    {Shape(e, "Alice", "K1") :
        e \in {<<CONNECT>>, <<RECONNECT_UPDATE>>, <<DISCONNECT, TIMEOUT>>,
               <<DISCONNECTED>>, <<HANDSHAKE>>}}
    \cup {GarbageShape, BadHourShape}

EventRuns ==
    {Run(DefaultArgv, NoMapFile, {LogFile(1, Stamp(sh, "ascending"), FALSE)},
         TRUE) : sh \in Seqs(EventShapes, MaxLines)}

\* Names: hints in the lines, a map naming K1, a peer selector.
NameShapes ==
    {Shape(<<CONNECT>>, "Unknown", "K1"), Shape(<<CONNECT>>, "Eve", "K1"),
     Shape(<<DISCONNECT>>, "Unknown", "K1"), Shape(<<DISCONNECT>>, "Alice", "K1"),
     Shape(<<CONNECT>>, "Alice", "K2")}

NameRuns ==
    {Run(Argv(u, None, None, DefaultDays), mf,
         {LogFile(1, Stamp(sh, "ascending"), FALSE)}, TRUE) :
        sh \in Seqs(NameShapes, MaxLines),
        u \in {"all", "Alice", "Bob"},
        mf \in {NoMapFile, BobMap}}

\* Lines that neither open nor close a session, among lines that do, with
\* names that change.
HandshakeShapes ==
    {Shape(<<HANDSHAKE>>, "Eve", "K1"), Shape(<<HANDSHAKE>>, "Unknown", "K1"),
     Shape(<<HANDSHAKE>>, "Alice", "K2"), Shape(<<CONNECT>>, "Unknown", "K1"),
     Shape(<<DISCONNECT>>, "Alice", "K1")}

HandshakeRuns ==
    {Run(DefaultArgv, NoMapFile, {LogFile(1, Stamp(sh, "ascending"), FALSE)},
         TRUE) : sh \in Seqs(HandshakeShapes, MaxLines)}

\* Dates: one or two lines at the edges of days 1 to 3, in three offsets.
EdgeClocks ==
    {Clock(d, t[1], t[2], t[3], off) :
        d \in {1, 2, 3},
        t \in {<<0, 0, 0>>, <<23, 59, 59>>},
        off \in {-8 * 3600, 0, 8 * 3600}}

DateLogs ==
    {<<Line(a, <<CONNECT>>, "Alice", "K1", Endpoints[1])>> : a \in EdgeClocks}
    \cup {<<Line(a, <<CONNECT>>, "Alice", "K1", Endpoints[1]),
            Line(b, <<DISCONNECT>>, "Alice", "K1", Endpoints[2])>> :
             a \in EdgeClocks, b \in EdgeClocks}

DateArgvs ==
    {Argv("all", Some(1), Some(2), DefaultDays),
     Argv("all", Some(2), Some(2), DefaultDays),
     Argv("all", Some(1), Some(1), DefaultDays),
     Argv("all", None, Some(2), 1),
     Argv("all", None, Some(2), 2),
     Argv("all", None, Some(2), 0),
     Argv("all", None, None, DefaultDays),
     Argv("all", Some(2), None, DefaultDays),
     Argv("all", Some(3), Some(1), DefaultDays)}

DateRuns ==
    {Run(av, NoMapFile, {LogFile(1, ls, FALSE)}, TRUE) :
        av \in DateArgvs, ls \in DateLogs}

\* Files: a log cut in two files, either of which may fail after its lines,
\* under either naming; no file at all; an output that cannot be written.
FileShapes ==
    {Shape(<<CONNECT>>, "Alice", "K1"), Shape(<<DISCONNECT>>, "Alice", "K1")}

FileLogs ==
    {Stamp(sh, p) : sh \in Seqs(FileShapes, MaxLines),
                    p \in {"ascending", "paired"}}

CutInTwo(ls) ==
    {{LogFile(n, SubSeq(ls, 1, cut), e[1]),
      LogFile(3 - n, SubSeq(ls, cut + 1, Len(ls)), e[2])} :
        cut \in 0..Len(ls), n \in {1, 2},
        e \in {<<FALSE, FALSE>>, <<TRUE, FALSE>>, <<FALSE, TRUE>>, <<TRUE, TRUE>>}}

FileDirs == {{}} \cup UNION {CutInTwo(ls) : ls \in FileLogs}

FileRuns ==
    {Run(DefaultArgv, NoMapFile, dir, ok) : dir \in FileDirs, ok \in BOOLEAN}

\* Map files: absent, not a JSON object, and objects whose values have a
\* publicKey, have none, or are not containers.
MapFiles ==
    {NoMapFile,
     [exists |-> TRUE, json_object |-> FALSE, items |-> <<>>],
     MapFileOf(<<>>),
     BobMap,
     MapFileOf(<<Peer("Bob", "K1"), Peer("Carol", "K1")>>),
     MapFileOf(<<[kind |-> "no_key", name |-> "Bob"], Peer("Carol", "K2")>>),
     MapFileOf(<<Peer("Bob", "K1"), [kind |-> "scalar", name |-> "Carol"]>>),
     MapFileOf(<<[kind |-> "scalar", name |-> "Carol"], Peer("Bob", "K1")>>)}

MapRuns ==
    {Run(Argv(u, None, None, DefaultDays), mf,
         {LogFile(1, Stamp(<<Shape(<<CONNECT>>, "Eve", "K1"),
                            Shape(<<DISCONNECT>>, "Unknown", "K1"),
                            Shape(<<CONNECT>>, "Eve", "K2")>>, "ascending"),
                  FALSE)}, TRUE) :
        u \in {"all", "Bob", "Eve"}, mf \in MapFiles}

Runs == SessionRuns \cup LongRuns \cup InterleavedRuns \cup EventRuns
            \cup HandshakeRuns \cup NameRuns \cup DateRuns \cup FileRuns
            \cup MapRuns

-----------------------------------------------------------------------------
(* The run *)

\* The program about to run on r.
Start(r) ==
    /\ argv = r.argv
    /\ today = r.today
    /\ map_file = r.map_file
    /\ log_dir = r.log_dir
    /\ output_ok = r.output_ok
    /\ pc = "parse_arguments"
    /\ args = None
    /\ peer_map = EmptyMap
    /\ file_queue = <<>>
    /\ processed_files = 0
    /\ log_entries = <<>>
    /\ last_log_time = None
    /\ idx = 1
    /\ peer_states = [k \in {} |-> DefaultState]
    /\ peer_order = <<>>
    /\ fin = 1
    /\ sessions = <<>>
    /\ csv = None
    /\ stdout = <<>>
    /\ stderr = <<>>
    /\ exit_status = None

Init ==
    /\ \E r \in Runs : Start(r)
    /\ duration = None
    /\ rendered = None

\* Faulty variant: an inverted range is reported, and the run goes on.
ParseArguments_ContinueWhenInverted ==
    /\ pc = "parse_arguments"
    /\ args' = [user |-> argv.user,
                start_date_dt |-> start_date_dt(argv, today),
                end_date_dt |-> end_date_dt(argv, today)]
    /\ stderr' = IF DatesInverted(argv, today)
                 THEN Append(stderr, "Error: Start date cannot be after end date")
                 ELSE stderr
    /\ pc' = "load_peer_map"
    /\ UNCHANGED <<envVars, fmtVars, peer_map, file_queue, processed_files, log_entries,
                   last_log_time, idx, peer_states, peer_order, fin, sessions,
                   csv, stdout, exit_status>>

\* Lines 67-86.  An inverted range is reported and the run exits with 1.
ParseArguments ==
    /\ pc = "parse_arguments"
    /\ args' = [user |-> argv.user,
                start_date_dt |-> start_date_dt(argv, today),
                end_date_dt |-> end_date_dt(argv, today)]
    /\ IF DatesInverted(argv, today)
       THEN /\ stderr' = Append(stderr, "Error: Start date cannot be after end date")
            /\ exit_status' = Some(1)
            /\ pc' = "exit"
       ELSE /\ pc' = "load_peer_map"
            /\ UNCHANGED <<stderr, exit_status>>
    /\ UNCHANGED <<envVars, fmtVars, peer_map, file_queue, processed_files, log_entries,
                   last_log_time, idx, peer_states, peer_order, fin, sessions,
                   csv, stdout>>

\* Line 265.
LoadPeerMap ==
    /\ pc = "load_peer_map"
    /\ LET r == load_peer_map(map_file)
       IN  /\ peer_map' = r.map
           /\ stderr' = IF r.warned
                        THEN Append(stderr, "Warning: peer map") ELSE stderr
    /\ pc' = "glob"
    /\ UNCHANGED <<envVars, fmtVars, args, file_queue, processed_files, log_entries,
                   last_log_time, idx, peer_states, peer_order, fin, sessions,
                   csv, stdout, exit_status>>

\* Permutations of a finite set, as sequences.
Orders(S) ==
    {q \in [1..Cardinality(S) -> S] : \A x \in S : \E i \in DOMAIN q : q[i] = x}

Range(q) == {q[i] : i \in DOMAIN q}

\* Lines 115-121: glob returns the files in some order; they are read in
\* descending order of name.
Glob ==
    /\ pc = "glob"
    /\ \E log_files \in Orders(log_dir) :
          file_queue' = SortedReverse(Range(log_files))
    /\ pc' = "read"
    /\ UNCHANGED <<envVars, fmtVars, args, peer_map, processed_files, log_entries,
                   last_log_time, idx, peer_states, peer_order, fin, sessions,
                   csv, stdout, stderr, exit_status>>

\* Faulty variant: the exception ends the loop over the files.
ReadLogFile_AbortOnError ==
    /\ pc = "read"
    /\ file_queue # <<>>
    /\ LET log_file == Head(file_queue)
           r == ProcessLines(args, peer_map, log_file.lines)
       IN  /\ log_entries' = log_entries \o r.entries
           /\ processed_files' =
                 IF log_file.error THEN processed_files ELSE processed_files + 1
           /\ stderr' = stderr \o r.warnings \o
                 (IF log_file.error
                  THEN <<"Warning: Could not process file">> ELSE <<>>)
           /\ file_queue' = IF log_file.error THEN <<>> ELSE Tail(file_queue)
    /\ UNCHANGED <<envVars, fmtVars, pc, args, peer_map, last_log_time, idx, peer_states,
                   peer_order, fin, sessions, csv, stdout, exit_status>>

\* Lines 121-163, one file: its lines are parsed and the entries kept; an
\* exception is caught with a warning and the file is not counted.
ReadLogFile ==
    /\ pc = "read"
    /\ file_queue # <<>>
    /\ LET log_file == Head(file_queue)
           r == ProcessLines(args, peer_map, log_file.lines)
       IN  /\ log_entries' = log_entries \o r.entries
           /\ processed_files' =
                 IF log_file.error THEN processed_files ELSE processed_files + 1
           /\ stderr' = stderr \o r.warnings \o
                 (IF log_file.error
                  THEN <<"Warning: Could not process file">> ELSE <<>>)
    /\ file_queue' = Tail(file_queue)
    /\ UNCHANGED <<envVars, fmtVars, pc, args, peer_map, last_log_time, idx, peer_states,
                   peer_order, fin, sessions, csv, stdout, exit_status>>

\* Faulty variant: no file processed is treated as no entry found.
NoFilesProcessed_EmptyReport ==
    /\ pc = "read"
    /\ file_queue = <<>>
    /\ processed_files = 0
    /\ stdout' = Append(stdout, "No relevant log entries found")
    /\ sessions' = <<>>
    /\ pc' = "write_csv_report"
    /\ UNCHANGED <<envVars, fmtVars, args, peer_map, file_queue, processed_files,
                   log_entries, last_log_time, idx, peer_states, peer_order,
                   fin, csv, stderr, exit_status>>

\* Lines 165-167.
NoFilesProcessed ==
    /\ pc = "read"
    /\ file_queue = <<>>
    /\ processed_files = 0
    /\ stderr' = Append(stderr, "Error: No log files found or processed")
    /\ exit_status' = Some(1)
    /\ pc' = "exit"
    /\ UNCHANGED <<envVars, fmtVars, args, peer_map, file_queue, processed_files,
                   log_entries, last_log_time, idx, peer_states, peer_order,
                   fin, sessions, csv, stdout>>

\* Lines 169-171: process_logs returns [].
NoLogEntries ==
    /\ pc = "read"
    /\ file_queue = <<>>
    /\ processed_files # 0
    /\ log_entries = <<>>
    /\ stdout' = Append(stdout, "No relevant log entries found")
    /\ sessions' = <<>>
    /\ pc' = "write_csv_report"
    /\ UNCHANGED <<envVars, fmtVars, args, peer_map, file_queue, processed_files,
                   log_entries, last_log_time, idx, peer_states, peer_order,
                   fin, csv, stderr, exit_status>>

\* Faulty variant: the watermark is taken before the sort.
SortLogEntries_WatermarkBeforeSort ==
    /\ pc = "read"
    /\ file_queue = <<>>
    /\ processed_files # 0
    /\ log_entries # <<>>
    /\ log_entries' = SortByTimestamp(log_entries)
    /\ last_log_time' = Some(log_entries[Len(log_entries)].timestamp)
    /\ idx' = 1
    /\ pc' = "sessions"
    /\ UNCHANGED <<envVars, fmtVars, args, peer_map, file_queue, processed_files,
                   peer_states, peer_order, fin, sessions, csv, stdout, stderr,
                   exit_status>>

\* Lines 173-179.
SortLogEntries ==
    /\ pc = "read"
    /\ file_queue = <<>>
    /\ processed_files # 0
    /\ log_entries # <<>>
    /\ log_entries' = SortByTimestamp(log_entries)
    /\ last_log_time' = Some(log_entries'[Len(log_entries')].timestamp)
    /\ idx' = 1
    /\ pc' = "sessions"
    /\ UNCHANGED <<envVars, fmtVars, args, peer_map, file_queue, processed_files,
                   peer_states, peer_order, fin, sessions, csv, stdout, stderr,
                   exit_status>>

\* Lines 181-221, one entry.
SessionStep ==
    /\ pc = "sessions"
    /\ idx <= Len(log_entries)
    /\ LET r == SessionEntry(peer_states, peer_order, sessions, log_entries[idx])
       IN  /\ peer_states' = r.peer_states
           /\ peer_order' = r.peer_order
           /\ sessions' = r.sessions
    /\ idx' = idx + 1
    /\ pc' = IF idx = Len(log_entries) THEN "ongoing" ELSE "sessions"
    /\ fin' = 1
    /\ UNCHANGED <<envVars, fmtVars, args, peer_map, file_queue, processed_files,
                   log_entries, last_log_time, csv, stdout, stderr, exit_status>>

\* Lines 225-238, one peer.
OngoingStep ==
    /\ pc = "ongoing"
    /\ fin <= Len(peer_order)
    /\ sessions' = OngoingEntry(sessions, peer_states[peer_order[fin]],
                                last_log_time)
    /\ fin' = fin + 1
    /\ pc' = IF fin = Len(peer_order) THEN "write_csv_report" ELSE "ongoing"
    /\ UNCHANGED <<envVars, fmtVars, args, peer_map, file_queue, processed_files,
                   log_entries, last_log_time, idx, peer_states, peer_order,
                   csv, stdout, stderr, exit_status>>

\* Lines 245-247: nothing to write; main returns.
WriteNothing ==
    /\ pc = "write_csv_report"
    /\ sessions = <<>>
    /\ stdout' = Append(stdout, "No sessions to write to CSV")
    /\ exit_status' = Some(0)
    /\ pc' = "exit"
    /\ UNCHANGED <<envVars, fmtVars, args, peer_map, file_queue, processed_files,
                   log_entries, last_log_time, idx, peer_states, peer_order,
                   fin, sessions, csv, stderr>>

\* Lines 249-257.
WriteCsv ==
    /\ pc = "write_csv_report"
    /\ sessions # <<>>
    /\ output_ok
    /\ csv' = Some(<<fieldnames>> \o sessions)
    /\ exit_status' = Some(0)
    /\ pc' = "exit"
    /\ UNCHANGED <<envVars, fmtVars, args, peer_map, file_queue, processed_files,
                   log_entries, last_log_time, idx, peer_states, peer_order,
                   fin, sessions, stdout, stderr>>

\* Faulty variant: the failure to write is swallowed.
WriteFails_Swallowed ==
    /\ pc = "write_csv_report"
    /\ sessions # <<>>
    /\ ~output_ok
    /\ exit_status' = Some(0)
    /\ pc' = "exit"
    /\ UNCHANGED <<envVars, fmtVars, args, peer_map, file_queue, processed_files,
                   log_entries, last_log_time, idx, peer_states, peer_order,
                   fin, sessions, csv, stdout, stderr>>

\* Lines 258-260.
WriteFails ==
    /\ pc = "write_csv_report"
    /\ sessions # <<>>
    /\ ~output_ok
    /\ stderr' = Append(stderr, "Error writing CSV file")
    /\ exit_status' = Some(1)
    /\ pc' = "exit"
    /\ UNCHANGED <<envVars, fmtVars, args, peer_map, file_queue, processed_files,
                   log_entries, last_log_time, idx, peer_states, peer_order,
                   fin, sessions, csv, stdout>>

Next ==
    \/ ParseArguments
    \/ LoadPeerMap
    \/ Glob
    \/ ReadLogFile
    \/ NoFilesProcessed
    \/ NoLogEntries
    \/ SortLogEntries
    \/ SessionStep
    \/ OngoingStep
    \/ WriteNothing
    \/ WriteCsv
    \/ WriteFails

Spec == Init /\ [][Next]_vars

-----------------------------------------------------------------------------
(* format_duration taken alone *)

MaxHours == 25

\* Minutes and seconds at the ends of their range and around the padding.
Sixtieths == {0, 1, 2, 3, 9, 10, 59}

\* Spans of whole seconds: every hour up to MaxHours, and the hours around
\* the third digit.
Durations ==
    {Some(h * 3600 + m * 60 + s) :
        h \in (0..MaxHours) \cup {99, 100}, m \in Sixtieths, s \in Sixtieths}

InitDuration ==
    /\ Start(Run(DefaultArgv, NoMapFile, {}, TRUE))
    /\ duration \in Durations
    /\ rendered = None

\* A call of format_duration(td), lines 104-111.
FormatDuration ==
    /\ duration # None
    /\ rendered = None
    /\ rendered' = Some(format_duration(duration))
    /\ UNCHANGED <<envVars, pc, args, peer_map, file_queue, processed_files,
                   log_entries, last_log_time, idx, peer_states, peer_order,
                   fin, sessions, csv, stdout, stderr, exit_status, duration>>

NextDuration == FormatDuration

SpecDuration == InitDuration /\ [][NextDuration]_vars

-----------------------------------------------------------------------------
(* Properties: what the log says, stated on the entries themselves *)

\* The session loop has run on the first Done entries of the sorted list.
Done ==
    IF pc = "sessions" THEN idx - 1
    ELSE IF pc \in {"ongoing", "write_csv_report", "exit"} /\ last_log_time # None
         THEN Len(log_entries)
         ELSE 0

Finished == pc = "exit" /\ last_log_time # None

ConnectClass(e) == e.event = CONNECT \/ e.event = RECONNECT_UPDATE

DisconnectClass(e) ==
    /\ Len(e.event) >= Len(DISCONNECT)
    /\ \A c \in 1..Len(DISCONNECT) : e.event[c] = DISCONNECT[c]

SameKey(i, j) == log_entries[i].peer_key = log_entries[j].peer_key

Max(S) == CHOOSE x \in S : \A y \in S : y <= x
Min(S) == CHOOSE x \in S : \A y \in S : x <= y

\* The last disconnect of entry j's peer before j, or 0.
LastDisconnectBefore(j) ==
    Max({0} \cup {m \in 1..(j - 1) :
                    SameKey(m, j) /\ DisconnectClass(log_entries[m])})

\* The connects of entry j's peer since its last disconnect: the first one is
\* the connect taken in Disconnected state.
ConnectsBefore(j) ==
    {i \in (LastDisconnectBefore(j) + 1)..(j - 1) :
        SameKey(i, j) /\ ConnectClass(log_entries[i])}

\* Entry j is a disconnect that ends a CONNECT -> DISCONNECT pair.
ClosesPair(j) ==
    /\ ~ConnectClass(log_entries[j])
    /\ DisconnectClass(log_entries[j])
    /\ ConnectsBefore(j) # {}

Opener(j) == Min(ConnectsBefore(j))

Indices(n) == [i \in 1..n |-> i]

\* The pairs closed within the first n entries, as (start, end) renderings.
PairsWithin(n) ==
    LET js == SelectSeq(Indices(n), ClosesPair)
    IN  [m \in 1..Len(js) |->
            <<isoformat(log_entries[Opener(js[m])].timestamp),
              isoformat(log_entries[js[m]].timestamp)>>]

IsOngoing(row) == row.SessionEnd.ongoing
IsCompleted(row) == ~row.SessionEnd.ongoing

CompletedRows == SelectSeq(sessions, IsCompleted)
OngoingRows == SelectSeq(sessions, IsOngoing)

\* C1: at every point of the session loop the completed sessions are, in
\* order, exactly the CONNECT -> DISCONNECT pairs closed so far, one row per
\* pair, starting at the connect's timestamp and ending at the disconnect's.
C1_OneSessionPerPair ==
    Done > 0 =>
        /\ Len(CompletedRows) = Len(PairsWithin(Done))
        /\ \A m \in 1..Len(CompletedRows) :
              /\ CompletedRows[m].SessionStart = PairsWithin(Done)[m][1]
              /\ CompletedRows[m].SessionEnd.time = PairsWithin(Done)[m][2]

\* A single peer's log with two pairs and a repeated connect has produced two
\* sessions.
C1_Witness ==
    /\ Finished
    /\ \A i \in 1..Len(log_entries) : log_entries[i].peer_key = "K1"
    /\ Len(PairsWithin(Len(log_entries))) = 2
    /\ Len(CompletedRows) = 2

\* The peers in the order of their first entry.
IsFirstOfKey(i) == \A m \in 1..(i - 1) : ~SameKey(m, i)

KeysInOrder ==
    LET firsts == SelectSeq(Indices(Len(log_entries)), IsFirstOfKey)
    IN  [m \in 1..Len(firsts) |-> log_entries[firsts[m]].peer_key]

\* The connect and disconnect entries of key k.
Boundaries(k) ==
    {i \in 1..Len(log_entries) :
        /\ log_entries[i].peer_key = k
        /\ ConnectClass(log_entries[i]) \/ DisconnectClass(log_entries[i])}

\* Key k is left Connected by the stream, and the connect that opened it.
LeftConnected(k) ==
    /\ Boundaries(k) # {}
    /\ ConnectClass(log_entries[Max(Boundaries(k))])

OpeningConnect(k) ==
    Min({i \in Boundaries(k) :
            \A m \in Boundaries(k) : m >= i => ConnectClass(log_entries[m])})

Watermark == isoformat(log_entries[Len(log_entries)].timestamp)

\* C2: once the stream is exhausted and the peers flushed, there is exactly one
\* open session per peer left Connected (none for the others), in the order
\* the peers first appeared, and every one carries the timestamp of the last
\* entry of the whole sorted stream as its end marker.
C2_OpenSessionsUseGlobalWatermark ==
    (Finished \/ (pc = "write_csv_report" /\ last_log_time # None)) =>
        LET left == SelectSeq(KeysInOrder, LeftConnected)
        IN  /\ Len(OngoingRows) = Len(left)
            /\ \A m \in 1..Len(OngoingRows) :
                  /\ OngoingRows[m].SessionStart =
                        isoformat(log_entries[OpeningConnect(left[m])].timestamp)
                  /\ OngoingRows[m].SessionEnd.time = Watermark
                  /\ OngoingRows[m].Duration.up_to_last_log

\* A peer whose own last entry is earlier than the stream's last entry has an
\* open session, and another peer is left Disconnected.
C2_Witness ==
    /\ Finished
    /\ Len(OngoingRows) = 1
    /\ \E k \in Range(KeysInOrder) :
          /\ LeftConnected(k)
          /\ Instant(log_entries[Max(Boundaries(k))].timestamp)
                < Instant(log_entries[Len(log_entries)].timestamp)
          /\ \A i \in 1..Len(log_entries) :
                log_entries[i].peer_key = k =>
                    Instant(log_entries[i].timestamp)
                        < Instant(log_entries[Len(log_entries)].timestamp)
    /\ \E k \in Range(KeysInOrder) : ~LeftConnected(k)

\* The entry the session loop is about to take, and its peer's state.
NextEntry == log_entries[idx]
NextState == StateOf(peer_states, NextEntry.peer_key)

RedundantDisconnect ==
    /\ pc = "sessions"
    /\ idx <= Len(log_entries)
    /\ ~ConnectClass(NextEntry)
    /\ DisconnectClass(NextEntry)
    /\ NextState.status = "disconnected"

\* C3: a disconnect taken while its peer is Disconnected (a peer never seen
\* included) adds no session, prints no error, does not end the run, and
\* leaves the peer Disconnected with no start time and no start endpoint.
C3_RedundantDisconnectIgnored ==
    [][RedundantDisconnect =>
          /\ sessions' = sessions
          /\ stderr' = stderr
          /\ exit_status' = None
          /\ pc' # "exit"
          /\ peer_states'[NextEntry.peer_key].status = "disconnected"
          /\ peer_states'[NextEntry.peer_key].session_start_time = None
          /\ peer_states'[NextEntry.peer_key].session_start_ip = None]_vars

\* The loop has just taken a disconnect that was the first entry of its peer.
C3_Witness ==
    /\ Done > 0
    /\ DisconnectClass(log_entries[Done])
    /\ IsFirstOfKey(Done)
    /\ peer_states[log_entries[Done].peer_key].status = "disconnected"
    /\ sessions = <<>>

\* C4: when the stream is a connect whose resolved name is "Unknown" followed
\* by a disconnect of the same peer whose resolved name is "Alice", the one
\* session reported is Alice's.
C4_NameAdoptedFromDisconnect ==
    (/\ Finished
     /\ Len(log_entries) = 2
     /\ log_entries[1].event = CONNECT
     /\ log_entries[1].peer_name = "Unknown"
     /\ log_entries[2].event = DISCONNECT
     /\ log_entries[2].peer_name = "Alice"
     /\ SameKey(1, 2)) =>
        /\ Len(sessions) = 1
        /\ sessions[1].PeerName = "Alice"
        /\ IsCompleted(sessions[1])

C4_Witness ==
    /\ Finished
    /\ Len(log_entries) = 2
    /\ log_entries[1].event = CONNECT
    /\ log_entries[1].peer_name = "Unknown"
    /\ log_entries[2].event = DISCONNECT
    /\ log_entries[2].peer_name = "Alice"
    /\ SameKey(1, 2)
    /\ Instant(log_entries[1].timestamp) < Instant(log_entries[2].timestamp)
    /\ Len(sessions) = 1
    /\ exit_status = Some(0)

\* The files in the order they are read, and the lines read so far.
FileAt(i) ==
    CHOOSE f \in log_dir : Cardinality({g \in log_dir : g.name > f.name}) = i - 1

FilesRead ==
    IF pc \in {"parse_arguments", "load_peer_map", "glob"} THEN 0
    ELSE Cardinality(log_dir) - Len(file_queue)

RECURSIVE LinesOfFirst(_)
LinesOfFirst(n) ==
    IF n = 0 THEN <<>> ELSE LinesOfFirst(n - 1) \o FileAt(n).lines

\* The line is well formed: the pattern matches and the timestamp parses.
WellFormed(line) ==
    /\ line.match
    /\ line.ts.hh \in 0..23 /\ line.ts.mm \in 0..59 /\ line.ts.ss \in 0..59

\* The name the claim gives the line: the map's when the key is in the map.
NameFor(line) ==
    IF line.key \in DOMAIN peer_map THEN peer_map[line.key] ELSE line.name

DateWithin(line) ==
    line.ts.date >= args.start_date_dt /\ line.ts.date <= args.end_date_dt

SelectedByName(line) ==
    /\ WellFormed(line)
    /\ DateWithin(line)
    /\ args.user = "all" \/ NameFor(line) = args.user

\* The row's session was opened by the entry with the row's endpoint.
OpenerOfRow(row) ==
    CHOOSE i \in 1..Len(log_entries) : log_entries[i].endpoint = row.EndpointIP

\* C5: while the files are read, the entries kept are those of the lines whose
\* resolved name passes the peer filter, each carrying as its name the map's
\* name for its key when the map has the key and the line's own name
\* otherwise; a session opened by a peer the map names is reported under the
\* map's name.
C5_MapNameWins ==
    /\ pc = "read" =>
          LET kept == SelectSeq(LinesOfFirst(FilesRead), SelectedByName)
          IN  /\ Len(log_entries) = Len(kept)
              /\ \A i \in 1..Len(kept) :
                    /\ log_entries[i].peer_key = kept[i].key
                    /\ log_entries[i].endpoint = kept[i].ip
                    /\ log_entries[i].peer_name = NameFor(kept[i])
    /\ Finished =>
          \A m \in 1..Len(sessions) :
              LET key == log_entries[OpenerOfRow(sessions[m])].peer_key
              IN  key \in DOMAIN peer_map =>
                      sessions[m].PeerName = peer_map[key]

\* The map names K1 Bob, a line of K1 says Eve, the selector is Bob: the line
\* is kept as Bob's and its session is reported as Bob's.
C5_Witness ==
    /\ Finished
    /\ args.user = "Bob"
    /\ "K1" \in DOMAIN peer_map
    /\ peer_map["K1"] = "Bob"
    /\ \E f \in log_dir : \E i \in 1..Len(f.lines) :
          /\ f.lines[i].match
          /\ f.lines[i].key = "K1"
          /\ f.lines[i].name = "Eve"
          /\ \E j \in 1..Len(log_entries) :
                /\ log_entries[j].endpoint = f.lines[i].ip
                /\ log_entries[j].peer_name = "Bob"
    /\ \E m \in 1..Len(sessions) : sessions[m].PeerName = "Bob"

AllLines == UNION {Range(f.lines) : f \in log_dir}

ReadingOver ==
    /\ pc \notin {"parse_arguments", "load_peer_map", "glob"}
    /\ args # None
    /\ args.start_date_dt <= args.end_date_dt
    /\ file_queue = <<>>

EntryOfLine(line) ==
    \E j \in 1..Len(log_entries) :
        /\ log_entries[j].endpoint = line.ip
        /\ log_entries[j].peer_key = line.key
        /\ log_entries[j].timestamp.date = line.ts.date
        /\ log_entries[j].timestamp.off = line.ts.off
        /\ log_entries[j].timestamp.tod =
              line.ts.hh * 3600 + line.ts.mm * 60 + line.ts.ss

\* C6: once the files are read, a well-formed line that passes the peer filter
\* has its entry kept if and only if its calendar date, as written in the line
\* with the line's own offset, is from the start date to the end date, both
\* included.
C6_DateFilterInclusiveLocal ==
    ReadingOver =>
        \A line \in AllLines :
            (WellFormed(line)
               /\ (args.user = "all" \/ NameFor(line) = args.user)) =>
                (EntryOfLine(line) <=>
                    (/\ args.start_date_dt <= line.ts.date
                     /\ line.ts.date <= args.end_date_dt))

\* In one run a line at 23:59:59 of the end date, already the next day in UTC,
\* is kept, and a line at 00:00:00 of the next day, still the end date in UTC,
\* is dropped.
C6_Witness ==
    /\ ReadingOver
    /\ \E line \in AllLines :
          /\ line.match
          /\ line.ts.date = args.end_date_dt
          /\ line.ts.hh = 23 /\ line.ts.mm = 59 /\ line.ts.ss = 59
          /\ line.ts.off < 0
          /\ EntryOfLine(line)
    /\ \E line \in AllLines :
          /\ line.match
          /\ line.ts.date = args.end_date_dt + 1
          /\ line.ts.hh = 0 /\ line.ts.mm = 0 /\ line.ts.ss = 0
          /\ line.ts.off > 0
          /\ ~EntryOfLine(line)

\* C7: with no log file discovered the run never gets past the reading and
\* ends with status 1; a run that read a file to its end and kept no entry
\* ends with status 0, an empty session list, no report written and the
\* notice printed.
C7_OutcomeBySourceCount ==
    /\ (log_dir = {} /\ pc \notin {"parse_arguments", "load_peer_map", "glob", "read"})
          => (pc = "exit" /\ exit_status = Some(1) /\ sessions = <<>> /\ csv = None)
    /\ (pc = "exit" /\ processed_files > 0 /\ log_entries = <<>>)
          => /\ exit_status = Some(0)
             /\ sessions = <<>>
             /\ csv = None
             /\ \E i \in 1..Len(stdout) : stdout[i] = "No relevant log entries found"

\* Files were read to their end, every line of theirs was filtered out or
\* malformed, and the run ended with status 0.
C7_Witness ==
    /\ pc = "exit"
    /\ processed_files > 0
    /\ log_entries = <<>>
    /\ \E f \in log_dir : f.lines # <<>>
    /\ exit_status = Some(0)

CountIn(q, x) == Cardinality({i \in 1..Len(q) : q[i] = x})

\* The run ended on "no log files found or processed".
NoFilesFatal ==
    /\ pc = "exit"
    /\ exit_status = Some(1)
    /\ stderr # <<>>
    /\ stderr[Len(stderr)] = "Error: No log files found or processed"

\* C8 as claimed: a file that cannot be opened or decoded is never fatal to
\* the run.
C8_FailingFileNeverFatal ==
    (\E f \in log_dir : f.error) => ~NoFilesFatal

\* C8 as amended: each failing file gives one warning and does not stop the
\* reading, every line of every file that was yielded is parsed and kept as
\* the filters decide, and the run is fatal exactly when no discovered file
\* was read to its end; otherwise the entries reach the session loop.
C8_FailureIsolation ==
    ReadingOver =>
        /\ CountIn(stderr, "Warning: Could not process file")
              = Cardinality({f \in log_dir : f.error})
        /\ processed_files = Cardinality({f \in log_dir : ~f.error})
        /\ \A line \in AllLines : SelectedByName(line) => EntryOfLine(line)
        /\ pc # "read" =>
              /\ NoFilesFatal <=> (\A f \in log_dir : f.error)
              /\ (log_entries # <<>> /\ \E f \in log_dir : ~f.error)
                    => last_log_time # None

\* A file failed after yielding a line, another was read to its end, the
\* lines of both are entries and the session loop runs on them.
C8_Witness ==
    /\ ReadingOver
    /\ pc = "sessions"
    /\ \E f \in log_dir : \E g \in log_dir :
          /\ f.error /\ f.lines # <<>>
          /\ ~g.error /\ g.lines # <<>>
          /\ \A line \in Range(f.lines) \cup Range(g.lines) : EntryOfLine(line)

\* The orders in which the entries kept could have been read.
Reorderings ==
    {[i \in 1..Len(log_entries) |-> log_entries[p[i]]] :
        p \in Orders(1..Len(log_entries))}

DistinctInstants ==
    \A i \in 1..Len(log_entries) : \A j \in 1..Len(log_entries) :
        i # j => Instant(log_entries[i].timestamp) # Instant(log_entries[j].timestamp)

\* C9 as claimed: whatever the order in which the files, and so the entries,
\* are read, the sessions are the same.
C9_AnyReadOrderSameSessions ==
    Finished => \A q \in Reorderings : SessionsOf(q) = sessions

\* C9 as amended: the files are read in descending order of name whatever the
\* order in which they were discovered, and when no two entries kept have the
\* same instant, the sessions are the same for every order in which the
\* entries could have been read.
C9_OrderIndependentWithoutTies ==
    /\ pc = "read" =>
          \A i \in 1..Len(file_queue) : \A j \in 1..Len(file_queue) :
              i < j => file_queue[i].name > file_queue[j].name
    /\ (Finished /\ DistinctInstants) =>
          \A q \in Reorderings : SessionsOf(q) = sessions

\* Two files were read newest name first, the entries of the first file read
\* are later than those of the second, and a session was rebuilt across them.
C9_Witness ==
    /\ Finished
    /\ DistinctInstants
    /\ Cardinality(log_dir) = 2
    /\ \E f \in log_dir : \E g \in log_dir :
          /\ f.name > g.name
          /\ f.lines # <<>> /\ g.lines # <<>>
          /\ \A a \in Range(f.lines) : \A b \in Range(g.lines) :
                a.ts.ss > b.ts.ss
    /\ CompletedRows # <<>>

\* The instant a rendered timestamp denotes.
InstantOfIso(t) ==
    t[1] * SecondsPerDay + t[2] * 3600 + t[3] * 60 + t[4] - t[5] * 60

\* HH:MM:SS, hours not wrapped, of s >= 0 seconds.
Clock02(n) == IF n < 10 THEN <<"0", DigitChars[n + 1]>> ELSE Decimal(n)

\* C10: every row, completed or open, ends at or after its start, and its
\* duration is that span, which is not negative.
C10_EndNotBeforeStart ==
    \A m \in 1..Len(sessions) :
        LET span == InstantOfIso(sessions[m].SessionEnd.time)
                       - InstantOfIso(sessions[m].SessionStart)
        IN  /\ span >= 0
            /\ sessions[m].Duration.text[1] # "-"
            /\ sessions[m].Duration.text =
                  Clock02(span \div 3600) \o <<":">>
                     \o Clock02((span % 3600) \div 60) \o <<":">>
                     \o Clock02(span % 60)

\* A row whose end is written in another offset than its start: on an earlier
\* calendar day, yet at a later instant.
C10_Witness ==
    /\ Finished
    /\ \E m \in 1..Len(sessions) :
          /\ sessions[m].SessionStart[5] # sessions[m].SessionEnd.time[5]
          /\ InstantOfIso(sessions[m].SessionEnd.time)
                > InstantOfIso(sessions[m].SessionStart)
          /\ sessions[m].SessionEnd.time[1] < sessions[m].SessionStart[1]

-----------------------------------------------------------------------------
(* C11: the default date range *)

Parsed == args # None

\* C11: when no start date is given the resolved start date is N days before
\* the resolved end date, N being the number of days given, and when no end
\* date is given the resolved end date is today.
C11_DefaultRange ==
    Parsed =>
        /\ argv.end_date = None => args.end_date_dt = today
        /\ argv.start_date = None =>
              args.start_date_dt = args.end_date_dt - argv.days

\* The part of C11 the code does keep: an end date left out is today, and a
\* start date left out is days - 1 days before the end date.
C11_EndDefaultsToToday ==
    Parsed =>
        /\ argv.end_date = None => args.end_date_dt = today
        /\ argv.start_date = None =>
              args.start_date_dt = args.end_date_dt - (argv.days - 1)

\* Neither date given, the default number of days: the range starts two days
\* before today, not three.
C11_Witness ==
    /\ Parsed
    /\ argv = DefaultArgv
    /\ args.end_date_dt = today
    /\ args.start_date_dt = today - 2

-----------------------------------------------------------------------------
(* C12: an inverted date range *)

RangeInverted == Parsed /\ args.start_date_dt > args.end_date_dt

\* C12: when the resolved start date is after the resolved end date the run is
\* over with a non-zero status and one diagnostic, and nothing else has
\* happened: no peer map was loaded (no name, no warning), no log file was
\* queued or read, no session was built and no report was written.
C12_InvertedRangeFatalBeforeIO ==
    RangeInverted =>
        /\ pc = "exit"
        /\ exit_status # None
        /\ The(exit_status) # 0
        /\ stderr = <<"Error: Start date cannot be after end date">>
        /\ stdout = <<>>
        /\ peer_map = EmptyMap
        /\ file_queue = <<>>
        /\ processed_files = 0
        /\ log_entries = <<>>
        /\ last_log_time = None
        /\ sessions = <<>>
        /\ csv = None

\* A start date given after the end date given, with a log file holding lines
\* of the end date and a peer map file that would have drawn a warning.
C12_Witness ==
    /\ RangeInverted
    /\ argv.start_date # None
    /\ argv.end_date # None
    /\ ~map_file.exists
    /\ \E f \in log_dir : Len(f.lines) > 0
    /\ exit_status = Some(1)

-----------------------------------------------------------------------------
(* C13: an output that cannot be written *)

AtReportStep == pc = "write_csv_report"

EndsFatally ==
    /\ pc' = "exit"
    /\ exit_status' # None
    /\ The(exit_status') # 0
    /\ Len(stderr') = Len(stderr) + 1

\* C13: every run that reaches the report step with an output destination that
\* cannot be written ends with a non-zero status and a diagnostic on the error
\* stream.
C13_UnwritableOutputFatal ==
    [][(AtReportStep /\ ~output_ok) => EndsFatally]_vars

\* C13, amended: with at least one session to write, an output destination
\* that cannot be written ends the run with status 1, one diagnostic on the
\* error stream and no report; with no session to write the destination is
\* never opened, and the run ends with status 0 and no diagnostic.
C13_UnwritableOutputFatalWithSessions ==
    [][(AtReportStep /\ ~output_ok) =>
          IF sessions # <<>>
          THEN /\ EndsFatally
               /\ exit_status' = Some(1)
               /\ stderr' = Append(stderr, "Error writing CSV file")
               /\ csv' = None
          ELSE /\ pc' = "exit"
               /\ exit_status' = Some(0)
               /\ stderr' = stderr
               /\ csv' = None]_vars

\* A run that built a session and could not write it.
C13_Witness ==
    /\ Finished
    /\ ~output_ok
    /\ sessions # <<>>
    /\ exit_status = Some(1)
    /\ stderr[Len(stderr)] = "Error writing CSV file"
    /\ csv = None

-----------------------------------------------------------------------------
(* C14: loading the peer name map *)

MapLoaded == Parsed /\ ~RangeInverted /\ pc # "load_peer_map"

\* Content that is not what the loader expects: not a JSON object, or an
\* object one of whose values is not a container.
Malformed(mf) ==
    /\ mf.exists
    /\ \/ ~mf.json_object
       \/ \E i \in 1..Len(mf.items) : mf.items[i].kind = "scalar"

MapWarned == \E i \in 1..Len(stderr) : stderr[i] = "Warning: peer map"

\* C14: loading the peer name map never ends the run, and a missing file or
\* malformed content leaves an empty map, through which no key resolves, and
\* a diagnostic.
C14_MapLoadDegradesToEmpty ==
    MapLoaded =>
        /\ pc = "glob" => exit_status = None
        /\ (~map_file.exists \/ Malformed(map_file)) =>
              /\ peer_map = EmptyMap
              /\ MapWarned

\* The part of C14 the code does keep: loading never ends the run; a missing
\* file and content that is not a JSON object leave an empty map and a
\* diagnostic; any malformed content draws the diagnostic.
C14_MapLoadNeverFatal ==
    MapLoaded =>
        /\ pc = "glob" => exit_status = None
        /\ (~map_file.exists \/ (map_file.exists /\ ~map_file.json_object)) =>
              peer_map = EmptyMap
        /\ (~map_file.exists \/ Malformed(map_file)) => MapWarned

\* A map file whose first value is well formed and whose second is a number:
\* the diagnostic is printed, and the first name still resolves.
C14_Witness ==
    /\ Finished
    /\ Malformed(map_file)
    /\ MapWarned
    /\ peer_map # EmptyMap
    /\ \E m \in 1..Len(sessions) : sessions[m].PeerName = "Bob"

-----------------------------------------------------------------------------
(* C15: the rendering of a duration *)

IsDigit(c) == \E d \in 0..9 : DigitChars[d + 1] = c

DigitValue(c) == CHOOSE d \in 0..9 : DigitChars[d + 1] = c

\* The number a run of digits writes.
RECURSIVE Number(_)
Number(text) ==
    IF text = <<>> THEN 0
    ELSE Number(SubSeq(text, 1, Len(text) - 1)) * 10
            + DigitValue(text[Len(text)])

AllDigits(text) == \A i \in 1..Len(text) : IsDigit(text[i])

\* text reads H..H:MM:SS with the given values, the hours on at least two
\* digits and on no more digits than they need beyond two.
ReadsAs(text, hours, minutes, seconds) ==
    /\ Len(text) >= 8
    /\ LET n  == Len(text)
           hh == SubSeq(text, 1, n - 6)
           mm == SubSeq(text, n - 4, n - 3)
           ss == SubSeq(text, n - 1, n)
       IN  /\ text[n - 5] = ":"
           /\ text[n - 2] = ":"
           /\ AllDigits(hh) /\ AllDigits(mm) /\ AllDigits(ss)
           /\ Len(hh) > 2 => hh[1] # "0"
           /\ Number(hh) = hours
           /\ Number(mm) = minutes
           /\ Number(ss) = seconds

\* C15: format_duration renders s >= 0 whole seconds as HH:MM:SS, the hours
\* being s div 3600 and not wrapped at 24, the minutes (s mod 3600) div 60 and
\* the seconds s mod 60, both within 0..59, each on at least two digits;
\* 3723 seconds read 01:02:03 and 90000 seconds read 25:00:00.
C15_DurationRendering ==
    rendered # None =>
        LET s    == The(duration)
            text == The(rendered)
        IN  /\ s >= 0
            /\ ((s % 3600) \div 60) \in 0..59
            /\ (s % 60) \in 0..59
            /\ ReadsAs(text, s \div 3600, (s % 3600) \div 60, s % 60)
            /\ s = 3723 =>
                  text = <<"0", "1", ":", "0", "2", ":", "0", "3">>
            /\ s = 90000 =>
                  text = <<"2", "5", ":", "0", "0", ":", "0", "0">>

\* Twenty-five hours, rendered.
C15_Witness ==
    /\ duration = Some(90000)
    /\ rendered = Some(<<"2", "5", ":", "0", "0", ":", "0", "0">>)

-----------------------------------------------------------------------------
(* C16: a connect taken while Connected *)

RedundantConnect ==
    /\ pc = "sessions"
    /\ idx <= Len(log_entries)
    /\ ConnectClass(NextEntry)
    /\ NextState.status = "connected"

\* Entry i is a connect taken while its peer was Disconnected: none of the
\* peer's connects before it is still unanswered by a disconnect.
OpensSession(i) ==
    /\ ConnectClass(log_entries[i])
    /\ ConnectsBefore(i) = {}

\* C16: a CONNECT or RECONNECT/UPDATE taken while its peer is Connected leaves
\* the peer Connected with the start time and the start endpoint it had, adds
\* no session and touches no other peer; of the peer's state only the name may
\* change, to the entry's name.  So every session emitted, completed or open,
\* carries the timestamp and the endpoint of the connect that opened it.
C16_ConnectWhileConnectedKeepsSession ==
    /\ [][RedundantConnect =>
            LET key   == NextEntry.peer_key
                after == peer_states'[key]
            IN  /\ after.status = "connected"
                /\ after.session_start_time = NextState.session_start_time
                /\ after.session_start_ip = NextState.session_start_ip
                /\ after.current_name \in
                      {NextState.current_name, NextEntry.peer_name}
                /\ sessions' = sessions
                /\ DOMAIN peer_states' = DOMAIN peer_states
                /\ \A k \in DOMAIN peer_states \ {key} :
                      peer_states'[k] = peer_states[k]]_vars
    /\ [](\A m \in 1..Len(sessions) :
            /\ \E i \in 1..Len(log_entries) :
                  log_entries[i].endpoint = sessions[m].EndpointIP
            /\ OpensSession(OpenerOfRow(sessions[m]))
            /\ sessions[m].SessionStart =
                  isoformat(log_entries[OpenerOfRow(sessions[m])].timestamp))

\* A completed session whose peer sent a second connect, at a later instant,
\* between the connect that opened it and the disconnect that closed it; the
\* second connect is a RECONNECT/UPDATE.
C16_Witness ==
    /\ Finished
    /\ \E m \in 1..Len(sessions), j \in 1..Len(log_entries) :
          LET i == OpenerOfRow(sessions[m])
          IN  /\ IsCompleted(sessions[m])
              /\ i < j
              /\ SameKey(i, j)
              /\ log_entries[j].event = RECONNECT_UPDATE
              /\ i \in ConnectsBefore(j)
              /\ Instant(log_entries[j].timestamp)
                    > Instant(log_entries[i].timestamp)
              /\ InstantOfIso(sessions[m].SessionEnd.time)
                    >= Instant(log_entries[j].timestamp)
              /\ sessions[m].SessionStart = isoformat(log_entries[i].timestamp)

-----------------------------------------------------------------------------
(* C17: name adoption *)

\* The entries of key k among the first n whose resolved name is a name.
NamedEntries(k, n) ==
    {i \in 1..n : /\ log_entries[i].peer_key = k
                  /\ log_entries[i].peer_name # "Unknown"}

KeysSeen(n) == {log_entries[i].peer_key : i \in 1..n}

\* C17: at every point of the session loop and after it, the peers with a
\* state are the keys of the entries taken so far, and the name stored for a
\* key is the resolved name of the latest entry of that key, among those
\* taken, whose resolved name is not "Unknown" ("Unknown" when there is
\* none); and no step turns a stored name that is not "Unknown" back into
\* "Unknown".
C17_NameLastWriterWins ==
    /\ [](/\ DOMAIN peer_states = KeysSeen(Done)
          /\ \A k \in DOMAIN peer_states :
                peer_states[k].current_name =
                    IF NamedEntries(k, Done) = {} THEN "Unknown"
                    ELSE log_entries[Max(NamedEntries(k, Done))].peer_name)
    /\ [][\A k \in DOMAIN peer_states :
             peer_states[k].current_name # "Unknown" =>
                /\ k \in DOMAIN peer_states'
                /\ peer_states'[k].current_name # "Unknown"]_vars

\* A key whose entries were named Eve, then Alice, then "Unknown": the name
\* stored is Alice.
C17_Witness ==
    /\ Done >= 3
    /\ \E i, j, l \in 1..Done :
          /\ i < j /\ j < l
          /\ SameKey(i, j) /\ SameKey(j, l)
          /\ log_entries[i].peer_name = "Eve"
          /\ log_entries[j].peer_name = "Alice"
          /\ log_entries[l].peer_name = "Unknown"
          /\ NamedEntries(log_entries[l].peer_key, Done) = {i, j}
          /\ peer_states[log_entries[l].peer_key].current_name = "Alice"

-----------------------------------------------------------------------------
(* C18: the fields of a peer state agree *)

\* C18: in every state of the session loop and after it, for every peer with
\* a state, the status is one of the two statuses, it is "connected" exactly
\* when the session start time is set and exactly when the session start
\* endpoint is set, and so in "disconnected" status both are unset.
C18_StatusMatchesStartFields ==
    \A k \in DOMAIN peer_states :
        LET state == peer_states[k]
        IN  /\ state.status \in {"connected", "disconnected"}
            /\ state.status = "connected" <=>
                  (state.session_start_time # None
                      /\ state.session_start_ip # None)
            /\ state.status = "disconnected" =>
                  (state.session_start_time = None
                      /\ state.session_start_ip = None)

\* Two peers: one whose session was closed, one whose session is open, with
\* the start fields of the connect that opened it.
C18_Witness ==
    /\ Done > 0
    /\ \E k1, k2 \in DOMAIN peer_states :
          /\ peer_states[k1].status = "disconnected"
          /\ peer_states[k1].session_start_time = None
          /\ peer_states[k1].session_start_ip = None
          /\ \E m \in 1..Len(sessions) :
                /\ IsCompleted(sessions[m])
                /\ log_entries[OpenerOfRow(sessions[m])].peer_key = k1
          /\ peer_states[k2].status = "connected"
          /\ \E i \in 1..Done :
                /\ log_entries[i].peer_key = k2
                /\ peer_states[k2].session_start_time
                      = Some(log_entries[i].timestamp)
                /\ peer_states[k2].session_start_ip
                      = Some(log_entries[i].endpoint)

-----------------------------------------------------------------------------
(* C19: the sessions of one peer *)

\* The key of the peer whose session row m reports: the key of the entry
\* that gave the row its endpoint.
KeyOfRow(m) == log_entries[OpenerOfRow(sessions[m])].peer_key

\* C19: of two rows of one key, the earlier emitted is a completed session and
\* the later one starts at or after the earlier one's end; so a key has at
\* most one open session and it is the key's last row; and every open
\* session is emitted after every completed session of the run.
C19_SessionsOfAKeyDoNotOverlap ==
    \A m, n \in 1..Len(sessions) :
        /\ (m < n /\ KeyOfRow(m) = KeyOfRow(n)) =>
              /\ IsCompleted(sessions[m])
              /\ InstantOfIso(sessions[n].SessionStart)
                    >= InstantOfIso(sessions[m].SessionEnd.time)
        /\ (IsOngoing(sessions[m]) /\ IsCompleted(sessions[n])) => n < m

\* Three rows: a completed session of one peer, a completed session of
\* another peer, and last the first peer's open session, which had started
\* before the other peer's session did.
C19_Witness ==
    /\ Finished
    /\ Len(sessions) = 3
    /\ IsCompleted(sessions[1])
    /\ IsCompleted(sessions[2])
    /\ IsOngoing(sessions[3])
    /\ KeyOfRow(1) = KeyOfRow(3)
    /\ KeyOfRow(2) # KeyOfRow(3)
    /\ InstantOfIso(sessions[3].SessionStart)
          >= InstantOfIso(sessions[1].SessionEnd.time)
    /\ InstantOfIso(sessions[3].SessionStart)
          < InstantOfIso(sessions[2].SessionStart)

-----------------------------------------------------------------------------
(* C20: an entry that is neither a connect nor a disconnect *)

OtherEvent(e) == ~ConnectClass(e) /\ ~DisconnectClass(e)

TakesOtherEvent ==
    /\ pc = "sessions"
    /\ idx <= Len(log_entries)
    /\ OtherEvent(NextEntry)

\* C20: an entry whose event is neither CONNECT nor RECONNECT/UPDATE and does
\* not start with DISCONNECT leaves its peer's status, session start time and
\* start endpoint as they were (those of the default state for a peer not
\* seen before), adds no session and touches no other peer; yet the peer has
\* a state afterwards, entered in the order of first appearance, whose name
\* is the entry's name unless that is "Unknown"; and when such an entry is
\* the last of the sorted stream, its timestamp is the watermark every open
\* session is closed with.
C20_OtherEventKeepsSession ==
    /\ [][TakesOtherEvent =>
            LET key   == NextEntry.peer_key
                after == peer_states'[key]
            IN  /\ key \in DOMAIN peer_states'
                /\ DOMAIN peer_states' = DOMAIN peer_states \cup {key}
                /\ peer_order' = IF key \in DOMAIN peer_states THEN peer_order
                                 ELSE Append(peer_order, key)
                /\ after.status = NextState.status
                /\ after.session_start_time = NextState.session_start_time
                /\ after.session_start_ip = NextState.session_start_ip
                /\ after.current_name =
                      IF NextEntry.peer_name # "Unknown"
                      THEN NextEntry.peer_name ELSE NextState.current_name
                /\ sessions' = sessions
                /\ \A k \in DOMAIN peer_states \ {key} :
                      peer_states'[k] = peer_states[k]]_vars
    /\ []((Done > 0 /\ OtherEvent(log_entries[Len(log_entries)])) =>
            /\ last_log_time = Some(log_entries[Len(log_entries)].timestamp)
            /\ \A m \in 1..Len(sessions) :
                  IsOngoing(sessions[m]) =>
                     sessions[m].SessionEnd.time = Watermark)

\* A peer first seen in a handshake named Eve, then connecting, then seen in a
\* second handshake that ends the stream: one open session, under the first
\* handshake's name, from the connect to the second handshake.
C20_Witness ==
    /\ Finished
    /\ Len(log_entries) = 3
    /\ log_entries[1].event = HANDSHAKE
    /\ log_entries[1].peer_name = "Eve"
    /\ log_entries[2].event = CONNECT
    /\ log_entries[2].peer_name = "Unknown"
    /\ log_entries[3].event = HANDSHAKE
    /\ log_entries[3].peer_name = "Unknown"
    /\ SameKey(1, 2) /\ SameKey(2, 3)
    /\ Len(sessions) = 1
    /\ IsOngoing(sessions[1])
    /\ sessions[1].PeerName = "Eve"
    /\ sessions[1].SessionStart = isoformat(log_entries[2].timestamp)
    /\ sessions[1].SessionEnd.time = isoformat(log_entries[3].timestamp)

=============================================================================
